---- MODULE Spec2Model ----
(***************************************************************************)
(* Gym Game Bot (src/main.py): the setup conversation, the claim/streak    *)
(* engine, team joins, the day/game lifecycle and the daily cron job,      *)
(* over the two document collections users_collection and                  *)
(* games_collection.                                                       *)
(*                                                                         *)
(* Dates are day numbers 1, 2, ...; str(date) is injective, so a stored    *)
(* last_claim string is modelled by the day number it prints, and None by  *)
(* 0.  A collection is the sequence of its documents in insertion order;   *)
(* find_one returns the first match, update_one changes the first match.   *)
(***************************************************************************)
EXTENDS Integers, Sequences, FiniteSets, TLC

\* ------------------------------------------------------------ bounds
MaxPoints == 2
MaxDay == 2
MaxGames == 2
MaxDate == 2
StreakDates == 8
StreakPoints == 11
LifeDay == 31
CronDates == 8

\* ------------------------------------------------------------ constants
None == 0
ADMIN_ID == 1
UserIds == {1, 2, 3}

SELECT_MODE == 0
SET_DURATION == 1
CONFIRM_PENALTIES == 2
END == -1

\* Telegram profiles of the three identities (username, first_name, last_name).
Profile(u) ==
    CASE u = 1 -> [username |-> "alice", first_name |-> "Alice", last_name |-> ""]
      [] u = 2 -> [username |-> "", first_name |-> "Bob", last_name |-> "Ray"]
      [] OTHER -> [username |-> "", first_name |-> "Cy", last_name |-> ""]

get_display_name(u) ==
    LET user_obj == Profile(u) IN
    IF user_obj.username # "" THEN <<user_obj.username>>
    ELSE IF user_obj.first_name # "" /\ user_obj.last_name # ""
         THEN <<user_obj.first_name, " ", user_obj.last_name>>
    ELSE IF user_obj.first_name # "" THEN <<user_obj.first_name>>
    ELSE <<"Unknown User">>

\* Texts a user may send at the three setup prompts ("other": anything else).
ModeTexts == {"Individual", "Team", "other"}
DurationTexts == {"1 week", "2 weeks", "1 month", "other"}
PenaltyTexts == {"Yes", "No", "other"}

VARIABLES
    users,      \* users_collection: sequence of user documents
    games,      \* games_collection: sequence of game documents
    conv,       \* ConversationHandler state of each user's /start dialogue
    user_data,  \* context.user_data of each user
    today,      \* date.today()
    fired,      \* the 23:00 cron job of `today` has run
    reply,      \* kind of the last message the bot sent
    claimed_on, \* history: date of each user's last successful claim
    procs,      \* claim calls in flight, one per dispatcher worker
    calls       \* /join and /endday calls in flight, one per worker

vars == <<users, games, conv, user_data, today, fired, reply, claimed_on, procs, calls>>

\* ------------------------------------------------------------ store access
\* find_one returns the first match: the least index in I, 0 when I is empty.
First(I) == IF I = {} THEN 0 ELSE CHOOSE i \in I : \A j \in I : i <= j

find_user(us, uid) == First({i \in 1..Len(us) : us[i].user_id = uid})
\* Mutant: the lookup by display name settles for the first document.
find_first_user(us, name) == IF us = <<>> THEN 0 ELSE 1

find_user_by_name(us, name) == First({i \in 1..Len(us) : us[i].display_name = name})
find_active(gs) == First({i \in 1..Len(gs) : gs[i].active})

NewUserDoc(uid) ==
    [user_id |-> uid, display_name |-> get_display_name(uid),
     points |-> 0, streak |-> 0, last_claim |-> None]

\* Mutant: the bulk reset forgets last_claim.
ResetAllKeepsClaim(us) ==
    [i \in 1..Len(us) |-> [us[i] EXCEPT !.points = 0, !.streak = 0]]

\* update_many({}, {"$set": {"points": 0, "streak": 0, "last_claim": None}})
ResetAll(us) ==
    [i \in 1..Len(us) |-> [us[i] EXCEPT !.points = 0, !.streak = 0, !.last_claim = None]]

\* Mutant: the daily reset zeroes the points too.
ResetDailyAndPoints(us) == ResetAll(us)

\* update_many({}, {"$set": {"streak": 0, "last_claim": None}})
ResetDaily(us) ==
    [i \in 1..Len(us) |-> [us[i] EXCEPT !.streak = 0, !.last_claim = None]]

\* A claim call in flight: where it stands, whom it serves, the document
\* its find_one returned, and its reply once it has returned.  began, fresh
\* and points0 are history: the date the call began on, whether the user
\* had no successful claim on that date yet, and the user's points then.
Workers == {1, 2}
NoDoc == [user_id |-> None, display_name |-> <<>>, points |-> 0, streak |-> 0,
          last_claim |-> None]
Idle == [pc |-> "idle", user_id |-> None, user |-> NoDoc, outcome |-> "none",
         began |-> None, ended |-> None, fresh |-> FALSE, points0 |-> 0]

\* A /join or /endday call in flight: the command, where it stands, the
\* sender, the game document its find_one returned and its reply once it
\* has returned.  `with` is history: the workers that had a call in flight
\* when this one began.
NoGame ==
    [id |-> None, mode |-> "", duration |-> "", penalties |-> FALSE,
     team_1 |-> <<>>, team_2 |-> <<>>, active |-> FALSE, day |-> 0,
     start_date |-> [date |-> None, late |-> FALSE]]
NoCall == [op |-> "none", pc |-> "idle", user_id |-> None, game |-> NoGame,
           outcome |-> "none", with |-> {}]

InFlight == {p \in Workers : calls[p].pc \notin {"idle", "done"}}

\* update_one({"_id": id}, ...) reaches the stored game of that _id, if any.
find_game(gs, id) == First({i \in 1..Len(gs) : gs[i].id = id})

EmptyData ==
    [initiator_id |-> None, mode |-> "", duration |-> "", penalties |-> FALSE,
     team_1 |-> <<>>, team_2 |-> <<>>]

Init ==
    /\ users = <<>>
    /\ games = <<>>
    /\ conv = [u \in UserIds |-> END]
    /\ user_data = [u \in UserIds |-> EmptyData]
    /\ today = 1
    /\ fired = FALSE
    /\ reply = "none"
    /\ claimed_on = [u \in UserIds |-> None]
    /\ procs = [p \in Workers |-> Idle]
    /\ calls = [p \in Workers |-> NoCall]

\* ------------------------------------------------------------ setup dialogue
start(u) ==
    /\ conv[u] = END
    /\ IF find_active(games) # 0
       THEN /\ reply' = "game_already_started"
            /\ UNCHANGED <<conv, user_data>>
       ELSE /\ user_data' = [user_data EXCEPT ![u].initiator_id = u]
            /\ conv' = [conv EXCEPT ![u] = SELECT_MODE]
            /\ reply' = "choose_mode"
    /\ UNCHANGED <<users, games, today, fired, claimed_on, procs, calls>>

\* random.choice([True, False]) is the input toA.
select_mode(u, text, toA) ==
    /\ conv[u] = SELECT_MODE
    /\ IF u # user_data[u].initiator_id
       THEN /\ reply' = "only_initiator"
            /\ UNCHANGED <<conv, user_data>>
       ELSE /\ user_data' =
                 [user_data EXCEPT ![u] =
                    IF text = "Team"
                    THEN [@ EXCEPT !.mode = text,
                                   !.team_1 = IF toA THEN <<get_display_name(u)>> ELSE <<>>,
                                   !.team_2 = IF toA THEN <<>> ELSE <<get_display_name(u)>>]
                    ELSE [@ EXCEPT !.mode = text]]
            /\ conv' = [conv EXCEPT ![u] = SET_DURATION]
            /\ reply' = "choose_duration"
    /\ UNCHANGED <<users, games, today, fired, claimed_on, procs, calls>>

set_duration(u, text) ==
    /\ conv[u] = SET_DURATION
    /\ IF u # user_data[u].initiator_id
       THEN /\ reply' = "only_initiator"
            /\ UNCHANGED <<conv, user_data>>
       ELSE /\ user_data' = [user_data EXCEPT ![u].duration = text]
            /\ conv' = [conv EXCEPT ![u] = CONFIRM_PENALTIES]
            /\ reply' = "choose_penalties"
    /\ UNCHANGED <<users, games, today, fired, claimed_on, procs, calls>>

\* The game document confirm_penalties builds; its _id is the creation
\* timestamp, unique and increasing, modelled by the insertion position.
NewGame(gs, data, penalties, date, late) ==
    [id |-> Len(gs) + 1,
     mode |-> data.mode,
     duration |-> data.duration,
     penalties |-> penalties,
     team_1 |-> data.team_1,
     team_2 |-> data.team_2,
     active |-> TRUE,
     day |-> 1,
     start_date |-> [date |-> date, late |-> late]]

confirm_penalties(u, text, maxGames) ==
    /\ conv[u] = CONFIRM_PENALTIES
    /\ IF u # user_data[u].initiator_id
       THEN /\ reply' = "only_initiator"
            /\ UNCHANGED <<conv, user_data, users, games>>
       ELSE /\ Len(games) < maxGames
            /\ user_data' = [user_data EXCEPT ![u].penalties = (text = "Yes")]
            /\ games' = Append(games, NewGame(games, user_data[u], text = "Yes", today, fired))
            /\ users' = ResetAll(users)
            /\ conv' = [conv EXCEPT ![u] = END]
            /\ reply' = IF user_data[u].mode = "Team"
                        THEN "game_started_team" ELSE "game_started_individual"
    /\ UNCHANGED <<today, fired, claimed_on, procs, calls>>

\* Mutant: conversations are keyed by chat alone, so a text from anyone
\* answers whichever mode prompt is open.
text_message_any_session(u) ==
    /\ conv[u] = END
    /\ conv' = [w \in UserIds |-> IF conv[w] = SELECT_MODE THEN SET_DURATION ELSE conv[w]]
    /\ reply' = "none"
    /\ UNCHANGED <<users, games, user_data, today, fired, claimed_on, procs, calls>>

\* A plain text from a user with no dialogue of their own open.  The
\* ConversationHandler keeps one conversation per (chat, user): the text is
\* no entry point and no command, no handler takes it, nothing is sent.
text_message(u) ==
    /\ conv[u] = END
    /\ reply' = "none"
    /\ UNCHANGED <<users, games, conv, user_data, today, fired, claimed_on, procs, calls>>

\* ------------------------------------------------------------ claim
\* Mutant: the streak grows even after a gap.
ClaimStreakIgnoresGap(user, date) == user.streak + 1

\* Streak logic of claim: last_claim == str(today - 1 day) continues the streak.
ClaimStreak(user, date) ==
    IF user.last_claim = date - 1 /\ user.last_claim # None
    THEN user.streak + 1
    ELSE 1

\* Mutant: the point is subtracted instead of added.
ClaimPointsSubtracts(user, streak) ==
    IF streak % 7 = 0 THEN user.points - 1 + 3 ELSE user.points - 1

\* Points logic of claim: +1, plus 3 when the new streak is a multiple of 7.
ClaimPoints(user, streak) ==
    IF streak % 7 = 0 THEN user.points + 1 + 3 ELSE user.points + 1

\* The collection after claim's lookup: the user's document inserted when
\* absent, its display_name refreshed when it differs.
ClaimEnsure(us, u) ==
    LET i == find_user(us, u) IN
    IF i = 0 THEN Append(us, NewUserDoc(u))
    ELSE IF us[i].display_name # get_display_name(u)
         THEN [us EXCEPT ![i].display_name = get_display_name(u)]
         ELSE us

\* update_one({"user_id": u}, {"$set": {points, streak, last_claim}})
ClaimWrite(us, u, user, date) ==
    LET i == find_user(us, u)
        streak == ClaimStreak(user, date)
    IN  IF i = 0 THEN us
        ELSE [us EXCEPT ![i].points = ClaimPoints(user, streak),
                        ![i].streak = streak,
                        ![i].last_claim = date]

claim(u, maxPoints) ==
    LET us1 == ClaimEnsure(users, u)
        user == us1[find_user(us1, u)]
    IN  /\ IF user.last_claim = today
           THEN /\ users' = us1
                /\ reply' = "already_claimed"
                /\ UNCHANGED claimed_on
           ELSE /\ ClaimPoints(user, ClaimStreak(user, today)) <= maxPoints
                /\ users' = ClaimWrite(us1, u, user, today)
                /\ reply' = "claimed"
                /\ claimed_on' = [claimed_on EXCEPT ![u] = today]
        /\ UNCHANGED <<games, conv, user_data, today, fired, procs, calls>>

\* claim, one store access at a time.
\* user = find_one({"user_id": user_id}); a changed display_name is
\* written back at once.
claim_find(p, u) ==
    LET i == find_user(users, u) IN
    /\ procs[p].pc = "idle"
    /\ procs' = [procs EXCEPT ![p] =
                   [pc |-> IF i = 0 THEN "insert" ELSE "decide",
                    user_id |-> u,
                    user |-> IF i = 0 THEN NoDoc ELSE users[i],
                    outcome |-> "none",
                    began |-> today,
                    ended |-> None,
                    fresh |-> claimed_on[u] # today,
                    points0 |-> IF i = 0 THEN 0 ELSE users[i].points]]
    /\ users' = IF i # 0 /\ users[i].display_name # get_display_name(u)
                THEN [users EXCEPT ![i].display_name = get_display_name(u)]
                ELSE users
    /\ UNCHANGED <<games, conv, user_data, today, fired, reply, claimed_on, calls>>

\* insert_one of the zero document
claim_insert(p) ==
    /\ procs[p].pc = "insert"
    /\ users' = Append(users, NewUserDoc(procs[p].user_id))
    /\ procs' = [procs EXCEPT ![p].pc = "refind"]
    /\ UNCHANGED <<games, conv, user_data, today, fired, reply, claimed_on, calls>>

\* the second find_one, after the insert; when the document is gone again
\* user is None and user.get raises
claim_refind(p) ==
    LET i == find_user(users, procs[p].user_id) IN
    /\ procs[p].pc = "refind"
    /\ procs' = [procs EXCEPT ![p] =
                   IF i = 0
                   THEN [@ EXCEPT !.pc = "done", !.outcome = "raised", !.ended = today]
                   ELSE [@ EXCEPT !.pc = "decide", !.user = users[i]]]
    /\ UNCHANGED <<users, games, conv, user_data, today, fired, reply, claimed_on, calls>>

\* the already-claimed check on the document read earlier, then update_one
claim_write(p, maxPoints) ==
    LET u == procs[p].user_id
        user == procs[p].user
    IN  /\ procs[p].pc = "decide"
        /\ IF user.last_claim = today
           THEN /\ reply' = "already_claimed"
                /\ UNCHANGED <<users, claimed_on>>
           ELSE /\ ClaimPoints(user, ClaimStreak(user, today)) <= maxPoints
                /\ users' = ClaimWrite(users, u, user, today)
                /\ reply' = "claimed"
                /\ claimed_on' = [claimed_on EXCEPT ![u] = today]
        /\ procs' = [procs EXCEPT ![p].pc = "done", ![p].outcome = reply',
                                  ![p].ended = today]
        /\ UNCHANGED <<games, conv, user_data, today, fired, calls>>

\* the worker is free for the next call
claim_return(p) ==
    /\ procs[p].pc = "done"
    /\ procs' = [procs EXCEPT ![p] = Idle]
    /\ UNCHANGED <<users, games, conv, user_data, today, fired, reply, claimed_on, calls>>

\* ------------------------------------------------------------ join
\* Mutant: the comparison is inverted, the longer roster grows.
JoinTeamsLonger(game, name, toA) ==
    IF Len(game.team_1) > Len(game.team_2)
    THEN [game EXCEPT !.team_1 = Append(@, name)]
    ELSE IF Len(game.team_2) > Len(game.team_1)
    THEN [game EXCEPT !.team_2 = Append(@, name)]
    ELSE IF toA THEN [game EXCEPT !.team_1 = Append(@, name)]
    ELSE [game EXCEPT !.team_2 = Append(@, name)]

\* Mutant: every joiner goes to team_1.
JoinTeamsFirst(game, name, toA) == [game EXCEPT !.team_1 = Append(@, name)]

\* Team placement of join: the shorter roster, either when equal (toA is
\* random.choice([True, False])).
JoinTeams(game, name, toA) ==
    IF Len(game.team_1) < Len(game.team_2)
    THEN [game EXCEPT !.team_1 = Append(@, name)]
    ELSE IF Len(game.team_2) < Len(game.team_1)
    THEN [game EXCEPT !.team_2 = Append(@, name)]
    ELSE IF toA THEN [game EXCEPT !.team_1 = Append(@, name)]
    ELSE [game EXCEPT !.team_2 = Append(@, name)]

\* Mutant: join without its two rejections; with no game active the user
\* document is inserted all the same.
join_unchecked(u, toA) ==
    LET g == find_active(games) IN
    /\ games' = IF g # 0 /\ games[g].mode = "Team"
                THEN [games EXCEPT ![g] = JoinTeams(@, get_display_name(u), toA)]
                ELSE games
    /\ users' = Append(users, NewUserDoc(u))
    /\ reply' = "welcome"
    /\ UNCHANGED <<conv, user_data, today, fired, claimed_on, procs, calls>>

join(u, toA) ==
    LET g == find_active(games) IN
    /\ IF find_user(users, u) # 0
       THEN /\ reply' = "already_in_game"
            /\ UNCHANGED <<users, games>>
       ELSE IF g = 0
       THEN /\ reply' = "no_active_game"
            /\ UNCHANGED <<users, games>>
       ELSE /\ games' = IF games[g].mode = "Team"
                        THEN [games EXCEPT ![g] = JoinTeams(@, get_display_name(u), toA)]
                        ELSE games
            /\ users' = Append(users, NewUserDoc(u))
            /\ reply' = IF games[g].mode # "Team" THEN "welcome"
                        ELSE IF Len(games'[g].team_1) > Len(games[g].team_1)
                        THEN "welcome_team_a" ELSE "welcome_team_b"
    /\ UNCHANGED <<conv, user_data, today, fired, claimed_on, procs, calls>>

\* join, one store access at a time.
\* user = find_one({"user_id": user_id})
join_find_user(p, u) ==
    /\ calls[p].pc = "idle"
    /\ IF find_user(users, u) # 0
       THEN /\ reply' = "already_in_game"
            /\ calls' = [calls EXCEPT ![p] =
                           [NoCall EXCEPT !.op = "join", !.pc = "done", !.user_id = u,
                                          !.outcome = "already_in_game"]]
       ELSE /\ calls' = [calls EXCEPT ![p] =
                           [NoCall EXCEPT !.op = "join", !.pc = "find_game", !.user_id = u,
                                          !.with = InFlight \ {p}]]
            /\ UNCHANGED reply
    /\ UNCHANGED <<users, games, conv, user_data, today, fired, claimed_on, procs>>

\* active_game = find_one({"active": True})
join_find_game(p) ==
    LET g == find_active(games) IN
    /\ calls[p].op = "join" /\ calls[p].pc = "find_game"
    /\ IF g = 0
       THEN /\ reply' = "no_active_game"
            /\ calls' = [calls EXCEPT ![p].pc = "done", ![p].outcome = "no_active_game"]
       ELSE /\ reply' = IF games[g].mode = "Team" THEN reply ELSE "welcome"
            /\ calls' = [calls EXCEPT ![p].game = games[g],
                                      ![p].pc = IF games[g].mode = "Team"
                                                THEN "write_game" ELSE "insert"]
    /\ UNCHANGED <<users, games, conv, user_data, today, fired, claimed_on, procs>>

\* the append to the rosters read earlier, then
\* update_one({"_id": ...}, {"$set": {"team_1": team_1, "team_2": team_2}})
join_write_game(p, toA) ==
    LET placed == JoinTeams(calls[p].game, get_display_name(calls[p].user_id), toA)
        g == find_game(games, calls[p].game.id)
    IN  /\ calls[p].op = "join" /\ calls[p].pc = "write_game"
        /\ games' = IF g = 0 THEN games
                    ELSE [games EXCEPT ![g].team_1 = placed.team_1,
                                       ![g].team_2 = placed.team_2]
        /\ reply' = IF Len(placed.team_1) > Len(calls[p].game.team_1)
                    THEN "welcome_team_a" ELSE "welcome_team_b"
        /\ calls' = [calls EXCEPT ![p].pc = "insert", ![p].game = placed]
        /\ UNCHANGED <<users, conv, user_data, today, fired, claimed_on, procs>>

\* insert_one of the user's zero document
join_insert(p) ==
    /\ calls[p].op = "join" /\ calls[p].pc = "insert"
    /\ users' = Append(users, NewUserDoc(calls[p].user_id))
    /\ calls' = [calls EXCEPT ![p].pc = "done", ![p].outcome = "joined"]
    /\ UNCHANGED <<games, conv, user_data, today, fired, reply, claimed_on, procs>>

\* the handler has returned and the worker takes the next command
call_return(p) ==
    /\ calls[p].pc = "done"
    /\ calls' = [calls EXCEPT ![p] = NoCall]
    /\ UNCHANGED <<users, games, conv, user_data, today, fired, reply, claimed_on, procs>>

\* ------------------------------------------------------------ leaderboard
Sum(f, S) ==
    LET RECURSIVE Acc(_)
        Acc(T) == IF T = {} THEN 0
                  ELSE LET x == CHOOSE y \in T : TRUE IN f[x] + Acc(T \ {x})
    IN Acc(S)

InRoster(name, roster) == \E k \in 1..Len(roster) : roster[k] = name

\* sum of points over find({"display_name": {"$in": roster}})
TeamPoints(us, roster) ==
    Sum([i \in 1..Len(us) |-> us[i].points],
        {i \in 1..Len(us) : InRoster(us[i].display_name, roster)})

\* The game leaderboard reports on: the active one, else the most recent.
LeaderboardGame(gs) ==
    IF find_active(gs) # 0 THEN find_active(gs)
    ELSE IF gs = <<>> THEN 0
    ELSE CHOOSE i \in 1..Len(gs) : \A j \in 1..Len(gs) : gs[j].id <= gs[i].id

LeaderboardText(us, gs) ==
    LET g == LeaderboardGame(gs) IN
    IF g = 0 THEN "no_game_found"
    ELSE IF gs[g].mode = "Individual" THEN "leaderboard_individual"
    ELSE IF gs[g].mode = "Team"
    THEN LET a == TeamPoints(us, gs[g].team_1)
             b == TeamPoints(us, gs[g].team_2)
         IN  IF a > b THEN "team_a_leads"
             ELSE IF b > a THEN "team_b_leads"
             ELSE "teams_tied"
    ELSE "no_valid_mode"

leaderboard(u) ==
    /\ reply' = LeaderboardText(users, games)
    /\ UNCHANGED <<users, games, conv, user_data, today, fired, claimed_on, procs, calls>>

\* ------------------------------------------------------------ admin commands
\* str.lstrip('@') on a name typed with `ats` leading '@' characters.
lstrip_at(arg) == arg.name

\* Arguments of /bot and /setpoints: a display name (with or without '@')
\* and an integer; "malformed" stands for a wrong count or a non-integer.
AdminNames == {get_display_name(u) : u \in UserIds} \cup {<<"Nobody">>}
AdminArgs == [ats : {0, 1}, name : AdminNames]

\* update.message.text.split() yields the expected number of tokens only
\* when the typed name holds no blank: a "First Last" name always fails the
\* unpacking.
OneToken(arg) == \A k \in 1..Len(arg.name) : arg.name[k] # " "

admin_override(u, action, arg, value, wellFormed, maxPoints) ==
    /\ IF u # ADMIN_ID
       THEN /\ reply' = "not_authorized"
            /\ UNCHANGED users
       ELSE IF ~wellFormed \/ ~OneToken(arg)
       THEN /\ reply' = "invalid_command"
            /\ UNCHANGED users
       ELSE LET i == find_user_by_name(users, lstrip_at(arg)) IN
            IF i = 0
            THEN /\ reply' = "user_not_found"
                 /\ UNCHANGED users
            ELSE IF action = "add"
            THEN /\ users[i].points + value <= maxPoints
                 /\ users' = [users EXCEPT ![i].points = @ + value]
                 /\ reply' = "added"
            ELSE IF action = "remove"
            THEN /\ users[i].points - value >= 0 - maxPoints
                 /\ users' = [users EXCEPT ![i].points = @ - value]
                 /\ reply' = "removed"
            ELSE /\ reply' = "invalid_action"
                 /\ UNCHANGED users
    /\ UNCHANGED <<games, conv, user_data, today, fired, claimed_on, procs, calls>>

set_points(u, arg, points, wellFormed) ==
    /\ IF u # ADMIN_ID
       THEN /\ reply' = "not_authorized"
            /\ UNCHANGED users
       ELSE IF ~wellFormed \/ ~OneToken(arg)
       THEN /\ reply' = "invalid_command"
            /\ UNCHANGED users
       ELSE LET i == find_user_by_name(users, lstrip_at(arg)) IN
            IF i = 0
            THEN /\ reply' = "user_not_found"
                 /\ UNCHANGED users
            ELSE /\ users' = [users EXCEPT ![i].points = points]
                 /\ reply' = "points_set"
    /\ UNCHANGED <<games, conv, user_data, today, fired, claimed_on, procs, calls>>

\* Mutant: /reset deletes the user documents instead of zeroing them.
reset_deletes(u) ==
    /\ IF u # ADMIN_ID
       THEN /\ reply' = "not_authorized"
            /\ UNCHANGED users
       ELSE /\ users' = <<>>
            /\ reply' = "all_reset"
    /\ UNCHANGED <<games, conv, user_data, today, fired, claimed_on, procs, calls>>

reset(u) ==
    /\ IF u # ADMIN_ID
       THEN /\ reply' = "not_authorized"
            /\ UNCHANGED users
       ELSE /\ users' = ResetAll(users)
            /\ reply' = "all_reset"
    /\ UNCHANGED <<games, conv, user_data, today, fired, claimed_on, procs, calls>>

list_users(u) ==
    /\ reply' = IF u # ADMIN_ID THEN "not_authorized" ELSE "user_list"
    /\ UNCHANGED <<users, games, conv, user_data, today, fired, claimed_on, procs, calls>>

\* ------------------------------------------------------------ lifecycle
\* end_game past its admin check: the final leaderboard, active := False on
\* the first active game, then delete_many({}) on both collections.
EndGameStore(us, gs) ==
    IF find_active(gs) = 0
    THEN [users |-> us, games |-> gs, reply |-> "no_active_game_to_end"]
    ELSE [users |-> <<>>, games |-> <<>>, reply |-> "game_ended"]

\* Mutant: /endgame without its authorization check.
end_game_by_anyone(u) ==
    LET r == EndGameStore(users, games) IN
    /\ users' = r.users
    /\ games' = r.games
    /\ reply' = r.reply
    /\ UNCHANGED <<conv, user_data, today, fired, claimed_on, procs, calls>>

end_game(u) ==
    /\ IF u # ADMIN_ID
       THEN /\ reply' = "not_authorized"
            /\ UNCHANGED <<users, games>>
       ELSE LET r == EndGameStore(users, games) IN
            /\ users' = r.users
            /\ games' = r.games
            /\ reply' = r.reply
    /\ UNCHANGED <<conv, user_data, today, fired, claimed_on, procs, calls>>

\* Mutant: the game already ends on reaching the threshold.
DurationReached(game_duration, next_day) ==
    \/ game_duration = "1 week" /\ next_day >= 7
    \/ game_duration = "2 weeks" /\ next_day >= 14
    \/ game_duration = "1 month" /\ next_day >= 30

\* "Check if the game ends" of end_day.
DurationExceeded(game_duration, next_day) ==
    \/ game_duration = "1 week" /\ next_day > 7
    \/ game_duration = "2 weeks" /\ next_day > 14
    \/ game_duration = "1 month" /\ next_day > 30

end_day(u, maxDay) ==
    /\ IF u # ADMIN_ID
       THEN /\ reply' = "not_authorized"
            /\ UNCHANGED <<users, games>>
       ELSE LET g == find_active(games) IN
            IF g = 0
            THEN /\ reply' = "no_active_game"
                 /\ UNCHANGED <<users, games>>
            ELSE LET next_day == games[g].day + 1
                     gs1 == [games EXCEPT ![g].day = next_day]
                     us1 == ResetDaily(users)
                 IN  /\ next_day <= maxDay
                     /\ IF DurationExceeded(games[g].duration, next_day)
                        THEN LET r == EndGameStore(us1, gs1) IN
                             /\ users' = r.users
                             /\ games' = r.games
                             /\ reply' = r.reply
                        ELSE /\ users' = us1
                             /\ games' = gs1
                             /\ reply' = "day_ended"
    /\ UNCHANGED <<conv, user_data, today, fired, claimed_on, procs, calls>>

\* end_day, one store access at a time.
\* the admin check and active_game = find_one({"active": True})
end_day_find(p, u) ==
    LET g == find_active(games) IN
    /\ calls[p].pc = "idle"
    /\ IF u # ADMIN_ID \/ g = 0
       THEN /\ reply' = IF u # ADMIN_ID THEN "not_authorized" ELSE "no_active_game"
            /\ calls' = [calls EXCEPT ![p] =
                           [NoCall EXCEPT !.op = "end_day", !.pc = "done", !.user_id = u,
                                          !.outcome = reply']]
       ELSE /\ calls' = [calls EXCEPT ![p] =
                           [NoCall EXCEPT !.op = "end_day", !.pc = "write_day", !.user_id = u,
                                          !.game = games[g], !.with = InFlight \ {p}]]
            /\ UNCHANGED reply
    /\ UNCHANGED <<users, games, conv, user_data, today, fired, claimed_on, procs>>

\* update_one({"_id": ...}, {"$set": {"day": next_day}}), next_day taken
\* from the document read earlier
end_day_write_day(p, maxDay) ==
    LET next_day == calls[p].game.day + 1
        g == find_game(games, calls[p].game.id)
    IN  /\ calls[p].op = "end_day" /\ calls[p].pc = "write_day"
        /\ next_day <= maxDay
        /\ games' = IF g = 0 THEN games ELSE [games EXCEPT ![g].day = next_day]
        /\ calls' = [calls EXCEPT ![p].pc = "reset"]
        /\ UNCHANGED <<users, conv, user_data, today, fired, reply, claimed_on, procs>>

\* update_many({}, {"$set": {"streak": 0, "last_claim": None}})
end_day_reset(p) ==
    /\ calls[p].op = "end_day" /\ calls[p].pc = "reset"
    /\ users' = ResetDaily(users)
    /\ calls' = [calls EXCEPT ![p].pc = "finish"]
    /\ UNCHANGED <<games, conv, user_data, today, fired, reply, claimed_on, procs>>

\* the threshold check on the document read earlier: end_game, or the
\* announcement of the next day
end_day_finish(p) ==
    /\ calls[p].op = "end_day" /\ calls[p].pc = "finish"
    /\ IF DurationExceeded(calls[p].game.duration, calls[p].game.day + 1)
       THEN LET r == EndGameStore(users, games) IN
            /\ users' = r.users
            /\ games' = r.games
            /\ reply' = r.reply
       ELSE /\ reply' = "day_ended"
            /\ UNCHANGED <<users, games>>
    /\ calls' = [calls EXCEPT ![p].pc = "done", ![p].outcome = reply']
    /\ UNCHANGED <<conv, user_data, today, fired, claimed_on, procs>>

\* ------------------------------------------------------------ daily cron job
\* (current_date - start_date).days at 23:00 of `date`: a game started after
\* 23:00 has not completed its first day at the next day's run.
DaysPassed(start_date, date) ==
    (date - start_date.date) - (IF start_date.late THEN 1 ELSE 0)

Expired(game, date) ==
    LET game_days_passed == DaysPassed(game.start_date, date) IN
    \/ game.duration = "1 week" /\ game_days_passed >= 7
    \/ game.duration = "2 weeks" /\ game_days_passed >= 14
    \/ game.duration = "1 month" /\ game_days_passed >= 30

\* Mutant: the daily job also advances the day of the first active game.
CheckGameEndAdvancesDay(gs, date) ==
    LET g == find_active(gs) IN
    IF g = 0 THEN gs ELSE [gs EXCEPT ![g].day = @ + 1]

\* check_game_end walks the active games in order: a summary for each one
\* still running, and at the first expired one active := False and return.
CheckGameEnd(gs, date) ==
    LET i == First({j \in 1..Len(gs) : gs[j].active /\ Expired(gs[j], date)})
    IN  IF i = 0 THEN gs ELSE [gs EXCEPT ![i].active = FALSE]

\* The 23:00 job.  Its context comes from CallbackContext.from_bot and its
\* subtraction takes the stored start_date from a timezone-aware now(): with
\* a library that lacks the one or hands back the other naive the job
\* raises before it writes, so a firing either runs the loop or changes
\* nothing.
check_game_end ==
    /\ ~fired
    /\ fired' = TRUE
    /\ \/ /\ games' = CheckGameEnd(games, today)
          /\ reply' = IF games' # games THEN "ended_due_to_duration"
                      ELSE IF find_active(games) # 0 THEN "daily_summary"
                      ELSE "none"
       \/ UNCHANGED <<games, reply>>
    /\ UNCHANGED <<users, conv, user_data, today, claimed_on, procs, calls>>

\* Midnight: the cron job of the day has run and the date advances.
Tick(maxDate) ==
    /\ fired
    /\ today < maxDate
    /\ today' = today + 1
    /\ fired' = FALSE
    /\ UNCHANGED <<users, games, conv, user_data, reply, claimed_on, procs, calls>>

\* ------------------------------------------------------------ specifications
Setup(U, modes, durations, penalties, maxGames) ==
    \/ \E u \in U : start(u)
    \/ \E u \in U, text \in modes, toA \in BOOLEAN : select_mode(u, text, toA)
    \/ \E u \in U, text \in durations : set_duration(u, text)
    \/ \E u \in U, text \in penalties : confirm_penalties(u, text, maxGames)

Admin(U, maxPoints) ==
    \/ \E u \in U, action \in {"add", "remove", "give"}, arg \in AdminArgs,
          wellFormed \in BOOLEAN :
          admin_override(u, action, arg, 1, wellFormed, maxPoints)
    \/ \E u \in U, arg \in AdminArgs, points \in {0, 2}, wellFormed \in BOOLEAN :
          set_points(u, arg, points, wellFormed)
    \/ \E u \in U : reset(u)
    \/ \E u \in U : list_users(u)

\* The whole command surface short of the admin point commands, over two
\* dates: users 1 (the administrator) and 2, of whom user 2 runs /start.
Players == {1, 2}
Starters == {2}

Next ==
    \/ Setup(Starters, {"Individual", "Team"}, {"1 week"}, {"No"}, MaxGames)
    \/ \E u \in Players : claim(u, MaxPoints)
    \/ \E u \in Players, toA \in BOOLEAN : join(u, toA)
    \/ \E u \in Players : leaderboard(u)
    \/ \E u \in Players : end_game(u)
    \/ \E u \in Players : end_day(u, MaxDay)
    \/ \E u \in Players : reset(u)
    \/ check_game_end
    \/ Tick(MaxDate)

Spec == Init /\ [][Next]_vars

\* The setup dialogue run by two users at once, with recognised and
\* unrecognised texts, next to claims and /endgame.
NextSetup ==
    \/ Setup(Players, {"Team", "other"}, {"1 week"}, PenaltyTexts, MaxGames)
    \/ \E u \in Players : claim(u, MaxPoints)
    \/ \E u \in Players : end_game(u)

SpecSetup == Init /\ [][NextSetup]_vars

\* One user claiming, or not, on each of a run of dates; the only other
\* writer of the user's document is /reset.
Claimants == {2}

NextStreak ==
    \/ \E u \in Claimants : claim(u, StreakPoints)
    \/ \E u \in Players : reset(u)
    \/ check_game_end
    \/ Tick(StreakDates)

SpecStreak == Init /\ [][NextStreak]_vars

\* Team play: all three users join and claim in games user 2 sets up.
NextTeam ==
    \/ Setup(Starters, {"Individual", "Team"}, {"1 week"}, {"No"}, MaxGames)
    \/ \E u \in UserIds : claim(u, MaxPoints)
    \/ \E u \in UserIds, toA \in BOOLEAN : join(u, toA)
    \/ \E u \in UserIds : leaderboard(u)
    \/ \E u \in UserIds : end_game(u)

SpecTeam == Init /\ [][NextTeam]_vars

\* The day counter: games of each duration, advanced by /endday up to
\* their last day and beyond.
NextLife ==
    \/ Setup(Starters, {"Individual"}, {"1 week", "2 weeks", "1 month"}, {"No"}, MaxGames)
    \/ \E u \in Players : claim(u, MaxPoints)
    \/ \E u \in Players, toA \in BOOLEAN : join(u, toA)
    \/ \E u \in Players : end_day(u, LifeDay)

SpecLife == Init /\ [][NextLife]_vars

\* The daily job over a run of dates long enough for a 1 week game to
\* expire, next to /endday and /endgame.
NextCron ==
    \/ Setup(Starters, {"Individual"}, {"1 week"}, {"No"}, MaxGames)
    \/ \E u \in Claimants : claim(u, MaxPoints)
    \/ \E u \in Players : end_day(u, MaxDay)
    \/ \E u \in Players : end_game(u)
    \/ check_game_end
    \/ Tick(CronDates)

SpecCron == Init /\ [][NextCron]_vars

\* The admin commands, sent by the administrator and by user 2, over the
\* documents of claiming users and a game user 2 sets up.
NextAdmin ==
    \/ Setup(Starters, {"Individual"}, {"1 week"}, {"No"}, MaxGames)
    \/ \E u \in Players : claim(u, MaxPoints)
    \/ Admin(Players, MaxPoints)
    \/ \E u \in Players : end_day(u, MaxDay)
    \/ \E u \in Players : end_game(u)

SpecAdmin == Init /\ [][NextAdmin]_vars

\* Games of every duration text, offered or not, under /endday up to day 31.
NextDuration ==
    \/ Setup(Starters, {"Individual"}, DurationTexts, {"No"}, MaxGames)
    \/ \E u \in Players : end_day(u, LifeDay)
    \/ \E u \in Players : end_game(u)

SpecDuration == Init /\ [][NextDuration]_vars

\* /endday over Individual and Team games with claiming and joining users.
NextDay ==
    \/ Setup(Starters, {"Individual", "Team"}, {"1 week"}, {"No"}, MaxGames)
    \/ \E u \in Players : claim(u, MaxPoints)
    \/ \E u \in Players, toA \in BOOLEAN : join(u, toA)
    \/ \E u \in Players : end_day(u, MaxDay)

SpecDay == Init /\ [][NextDay]_vars

\* Two setup dialogues next to texts of users who have none open, over a
\* store that holds user 3's claims.
Bystanders == {3}

NextDialogue ==
    \/ Setup(Players, {"Individual", "Team"}, {"1 week"}, {"Yes", "No"}, MaxGames)
    \/ \E u \in UserIds : text_message(u)
    \/ \E u \in Bystanders : claim(u, MaxPoints)
    \/ \E u \in Players : end_game(u)

SpecDialogue == Init /\ [][NextDialogue]_vars

\* /join calls of users 1 and 3 interleaved at their store accesses, in
\* Team games user 2 sets up.
Joiners == {1, 3}

NextJoin ==
    \/ Setup(Starters, {"Team"}, {"1 week"}, {"No"}, MaxGames)
    \/ \E p \in Workers, u \in Joiners : join_find_user(p, u)
    \/ \E p \in Workers : join_find_game(p)
    \/ \E p \in Workers, toA \in BOOLEAN : join_write_game(p, toA)
    \/ \E p \in Workers : join_insert(p)
    \/ \E p \in Workers : call_return(p)

SpecJoin == Init /\ [][NextJoin]_vars

\* /endday calls of the administrator interleaved at their store accesses
\* with each other and with the daily job, over the dates a 1 week game
\* takes to expire.
Admins == {ADMIN_ID}

NextEndDay ==
    \/ Setup(Starters, {"Individual"}, {"1 week"}, {"No"}, MaxGames)
    \/ \E p \in Workers, u \in Admins : end_day_find(p, u)
    \/ \E p \in Workers : end_day_write_day(p, MaxDay)
    \/ \E p \in Workers : end_day_reset(p)
    \/ \E p \in Workers : end_day_finish(p)
    \/ \E p \in Workers : call_return(p)
    \/ check_game_end
    \/ Tick(CronDates)

SpecEndDay == Init /\ [][NextEndDay]_vars

\* Claim calls of two workers interleaved at their store accesses.
NextConc ==
    \/ \E p \in Workers, u \in Claimants : claim_find(p, u)
    \/ \E p \in Workers : claim_insert(p)
    \/ \E p \in Workers : claim_refind(p)
    \/ \E p \in Workers : claim_write(p, MaxPoints)
    \/ \E p \in Workers : claim_return(p)
    \/ \E u \in Players : reset(u)
    \/ check_game_end
    \/ Tick(MaxDate)

SpecConc == Init /\ [][NextConc]_vars

\* ------------------------------------------------------------ C1
ActiveGames == {i \in 1..Len(games) : games[i].active}

\* C1: in every reachable state at most one game document has active = TRUE,
\* whatever the order of the users' commands.
AtMostOneActive == Cardinality(ActiveGames) <= 1

\* ------------------------------------------------------------ C2
\* Two claim calls for one user, both begun and finished on the same date,
\* the user not having claimed on it when either began.
Overlapping(p, q) ==
    /\ p # q
    /\ procs[p].pc = "done" /\ procs[q].pc = "done"
    /\ procs[p].user_id = procs[q].user_id
    /\ procs[p].began = today /\ procs[q].began = today
    /\ procs[p].fresh /\ procs[q].fresh

\* C2: of two such calls exactly one replies with the point and the other
\* with "already claimed".
OneClaimWins ==
    \A p, q \in Workers : Overlapping(p, q) =>
        {procs[p].outcome, procs[q].outcome} = {"claimed", "already_claimed"}

\* ------------------------------------------------------------ C3
\* C3: a claim by a user who has already made a successful claim on the
\* current date never succeeds, whatever happened in between.
OncePerDate ==
    [][\A u \in Players :
          (claim(u, MaxPoints) /\ claimed_on[u] = today) => reply' = "already_claimed"]_vars

\* ------------------------------------------------------------ C6
AllZero(us) ==
    \A i \in 1..Len(us) :
        us[i].points = 0 /\ us[i].streak = 0 /\ us[i].last_claim = None

\* The case of C6: the initiator, having answered "Team" and "1 week",
\* answers "No" while no game is active.
TeamWeekNo(u) ==
    /\ confirm_penalties(u, "No", MaxGames)
    /\ user_data[u].mode = "Team"
    /\ user_data[u].duration = "1 week"
    /\ ActiveGames = {}

\* C6: /start, "Team", "1 week", "No" with no game active leaves exactly one
\* new active game (Team, 1 week, no penalties, day 1) with the initiator on
\* exactly one roster, and every stored user at points 0, streak 0 and no
\* last_claim, no user document created or deleted.
SetupCommits ==
    [][\A u \in Players : TeamWeekNo(u) =>
          LET g == Len(games) + 1 IN
          /\ Len(games') = g
          /\ \A i \in 1..Len(games) : games'[i] = games[i]
          /\ ActiveGames' = {g}
          /\ games'[g].mode = "Team"
          /\ games'[g].duration = "1 week"
          /\ DurationExceeded(games'[g].duration, 8)
          /\ ~DurationExceeded(games'[g].duration, 7)
          /\ games'[g].penalties = FALSE
          /\ games'[g].day = 1
          /\ \/ games'[g].team_1 = <<get_display_name(u)>> /\ games'[g].team_2 = <<>>
             \/ games'[g].team_1 = <<>> /\ games'[g].team_2 = <<get_display_name(u)>>
          /\ Len(users') = Len(users)
          /\ \A i \in 1..Len(users) : users'[i].user_id = users[i].user_id
          /\ AllZero(users')]_vars

\* A Team / 1 week / no-penalties game has just been started over a store
\* holding a user who had claimed before.
SetupCommitsWitness ==
    /\ reply = "game_started_team"
    /\ ActiveGames = {Len(games)}
    /\ games[Len(games)].duration = "1 week"
    /\ games[Len(games)].penalties = FALSE
    /\ \E i \in 1..Len(users) : claimed_on[users[i].user_id] # None

\* ------------------------------------------------------------ C10
\* No stored user loses points in the step.
PointsKept ==
    /\ Len(users') >= Len(users)
    /\ \A i \in 1..Len(users) :
          /\ users'[i].user_id = users[i].user_id
          /\ users'[i].points >= users[i].points

PlayStep ==
    \/ \E u \in Players : claim(u, MaxPoints)
    \/ \E u \in Players, toA \in BOOLEAN : join(u, toA)
    \/ \E u \in Players : leaderboard(u)
    \/ check_game_end

SetupStepByNonAdmin ==
    \E u \in Players \ {ADMIN_ID}, text \in PenaltyTexts :
        confirm_penalties(u, text, MaxGames)

\* C10 as stated: neither claim, join, leaderboard, the daily job nor a
\* non-admin user completing the setup lowers a stored user's points.
PointsMonotonic == [][(PlayStep \/ SetupStepByNonAdmin) => PointsKept]_vars

\* C10 as amended: claim, join, leaderboard and the daily job never lower a
\* stored user's points.
PointsMonotonicInPlay == [][PlayStep => PointsKept]_vars

\* A user holds points earned by a claim.
PointsMonotonicWitness ==
    /\ reply = "claimed"
    /\ \E i \in 1..Len(users) : users[i].points > 0

\* ------------------------------------------------------------ C4
\* The document claim works from: the stored one, or the zero document it
\* inserts for a user it does not know.
PriorDoc(u) ==
    IF find_user(users, u) = 0
    THEN [points |-> 0, streak |-> 0, last_claim |-> None]
    ELSE users[find_user(users, u)]

ClaimSucceeds(u) == claim(u, StreakPoints) /\ reply' = "claimed"

\* Points after the k-th of seven claims on consecutive dates, from 0.
SevenDayPoints == <<1, 2, 3, 4, 5, 6, 10>>

\* C4: a successful claim sets streak to prior streak + 1 when last_claim is
\* yesterday and to 1 otherwise, sets last_claim to today, and adds 1 point
\* plus 3 exactly when the new streak is a positive multiple of 7; a user
\* claiming on each date from the first on has 1,2,3,4,5,6,10 points.
StreakAndBonus ==
    /\ [][\A u \in Claimants : ClaimSucceeds(u) =>
            LET prior == PriorDoc(u)
                new == users'[find_user(users', u)]
                bonus == IF new.streak > 0 /\ new.streak % 7 = 0 THEN 3 ELSE 0
            IN  /\ new.streak = IF prior.last_claim # None /\ prior.last_claim + 1 = today
                                THEN prior.streak + 1 ELSE 1
                /\ new.last_claim = today
                /\ new.points = prior.points + 1 + bonus]_vars
    /\ [](\A i \in 1..Len(users) :
            (users[i].streak = users[i].last_claim /\ users[i].streak \in 1..7)
                => users[i].points = SevenDayPoints[users[i].streak])

\* The seventh claim in a row has just paid the bonus.
StreakAndBonusWitness ==
    /\ reply = "claimed"
    /\ \E i \in 1..Len(users) :
          users[i].streak = 7 /\ users[i].last_claim = 7 /\ users[i].points = 10

\* ------------------------------------------------------------ C5
\* join(u, toA) gets past its two rejections and finds a Team game.
JoinsTeamGame(u, toA) ==
    /\ join(u, toA)
    /\ find_user(users, u) = 0
    /\ find_active(games) # 0
    /\ games[find_active(games)].mode = "Team"

GrowsA(g, name) ==
    /\ games'[g].team_1 = Append(games[g].team_1, name)
    /\ games'[g].team_2 = games[g].team_2

GrowsB(g, name) ==
    /\ games'[g].team_2 = Append(games[g].team_2, name)
    /\ games'[g].team_1 = games[g].team_1

\* C5: a successful join in a Team game appends the joiner's display name to
\* the strictly smaller roster when the sizes differ, and to either roster
\* (each outcome possible) when they are equal; the other roster is unchanged.
JoinBalances ==
    [][\A u \in UserIds, toA \in BOOLEAN : JoinsTeamGame(u, toA) =>
          LET g == find_active(games)
              a == Len(games[g].team_1)
              b == Len(games[g].team_2)
              name == get_display_name(u)
          IN  /\ a < b => GrowsA(g, name)
              /\ b < a => GrowsB(g, name)
              /\ a = b => /\ GrowsA(g, name) \/ GrowsB(g, name)
                          /\ ENABLED (\E t \in BOOLEAN : join(u, t) /\ GrowsA(g, name))
                          /\ ENABLED (\E t \in BOOLEAN : join(u, t) /\ GrowsB(g, name))]_vars

\* A join has just evened the two rosters at two members each.
JoinBalancesWitness ==
    /\ reply \in {"welcome_team_a", "welcome_team_b"}
    /\ \E i \in ActiveGames :
          /\ games[i].mode = "Team"
          /\ Len(games[i].team_1) + Len(games[i].team_2) = 4
          /\ Len(games[i].team_1) = Len(games[i].team_2)

\* ------------------------------------------------------------ C7
\* Day thresholds of the three durations.
Threshold(duration) ==
    CASE duration = "1 week" -> 7
      [] duration = "2 weeks" -> 14
      [] duration = "1 month" -> 30

\* /endday by the administrator finds an active game of a known duration.
EndsDay(u) ==
    /\ end_day(u, LifeDay)
    /\ u = ADMIN_ID
    /\ find_active(games) # 0
    /\ games[find_active(games)].duration \in {"1 week", "2 weeks", "1 month"}

\* C7: EndDay ends the game exactly when the incremented day exceeds the
\* threshold of its duration, and then no game and no user document remains;
\* otherwise the game stays active with day increased by 1.
EndDayThreshold ==
    [][\A u \in Players : EndsDay(u) =>
          LET g == find_active(games) IN
          IF games[g].day + 1 > Threshold(games[g].duration)
          THEN games' = <<>> /\ users' = <<>>
          ELSE /\ Len(games') = Len(games)
               /\ games'[g].active
               /\ games'[g].day = games[g].day + 1]_vars

\* /endday on the last day of a 1 month game has wiped the store.
EndDayThresholdWitness ==
    /\ reply = "game_ended"
    /\ games = <<>>
    /\ users = <<>>
    /\ \E u \in Starters : user_data[u].duration = "1 month"

\* ------------------------------------------------------------ C8
\* C8: no game document with active = FALSE is ever stored.
NoEndedGameStored == \A i \in 1..Len(games) : games[i].active

WholeDaysRun(game) ==
    IF game.start_date.late THEN today - game.start_date.date - 1
    ELSE today - game.start_date.date

Recognised(state) ==
    CASE state = SELECT_MODE -> {"Individual", "Team"}
      [] state = SET_DURATION -> {"1 week", "2 weeks", "1 month"}
      [] state = CONFIRM_PENALTIES -> {"Yes", "No"}

\* A setup step of user u with a text its prompt does not offer.
UnrecognisedInput(u) ==
    \/ \E text \in ModeTexts \ Recognised(SELECT_MODE), toA \in BOOLEAN :
          select_mode(u, text, toA)
    \/ \E text \in DurationTexts \ Recognised(SET_DURATION) : set_duration(u, text)
    \/ \E text \in PenaltyTexts \ Recognised(CONFIRM_PENALTIES) :
          confirm_penalties(u, text, MaxGames)

\* C11: a text the prompt does not offer leaves the dialogue in its state
\* and changes neither the collected answers nor the store, so every stored
\* game has a mode and a duration among the offered ones.
UnrecognisedReprompts ==
    /\ [][\A u \in Players : UnrecognisedInput(u) =>
             /\ conv'[u] = conv[u]
             /\ user_data' = user_data
             /\ users' = users
             /\ games' = games]_vars
    /\ [](\A i \in 1..Len(games) :
             /\ games[i].mode \in Recognised(SELECT_MODE)
             /\ games[i].duration \in Recognised(SET_DURATION))

\* ------------------------------------------------------------ C12
\* A text sent by v at any of the three prompts, or with no prompt open.
SetupInput(v) ==
    \/ text_message(v)
    \/ \E text \in ModeTexts, toA \in BOOLEAN : select_mode(v, text, toA)
    \/ \E text \in DurationTexts : set_duration(v, text)
    \/ \E text \in PenaltyTexts : confirm_penalties(v, text, MaxGames)

\* C12: a text from anyone but the initiator of an open setup dialogue
\* leaves that dialogue in its state with its mode, rosters, duration and
\* penalties as they were; coming from a user with no dialogue of their own,
\* it creates and changes no game and no user document.
OnlyInitiatorProceeds ==
    [][\A u \in UserIds, v \in UserIds :
          (u # v /\ conv[u] # END /\ SetupInput(v)) =>
              /\ user_data[u].initiator_id = u
              /\ conv'[u] = conv[u]
              /\ user_data'[u] = user_data[u]
              /\ conv[v] = END => (users' = users /\ games' = games)]_vars

\* A bystander's text has gone unanswered while a Team dialogue waits at the
\* penalties prompt and the store holds a user.
OnlyInitiatorProceedsWitness ==
    /\ reply = "none"
    /\ users # <<>>
    /\ \E u \in Players : conv[u] = CONFIRM_PENALTIES /\ user_data[u].mode = "Team"

\* ------------------------------------------------------------ C13
\* /bot, /setpoints, /endday, /endgame, /reset or /listusers sent by u.
AdminCommand(u) ==
    \/ \E action \in {"add", "remove", "give"}, arg \in AdminArgs, wellFormed \in BOOLEAN :
          admin_override(u, action, arg, 1, wellFormed, MaxPoints)
    \/ \E arg \in AdminArgs, points \in {0, 2}, wellFormed \in BOOLEAN :
          set_points(u, arg, points, wellFormed)
    \/ end_day(u, MaxDay)
    \/ end_game(u)
    \/ reset(u)
    \/ list_users(u)

\* C13: an admin command from anyone but the administrator is answered
\* "not authorized" and changes no user and no game document.
AdminOnly ==
    [][\A u \in Players \ {ADMIN_ID} : AdminCommand(u) =>
          /\ reply' = "not_authorized"
          /\ users' = users
          /\ games' = games]_vars

\* A non-administrator has been turned away over an active game and a user
\* holding points.
AdminOnlyWitness ==
    /\ reply = "not_authorized"
    /\ ActiveGames # {}
    /\ \E i \in 1..Len(users) : users[i].points > 0

\* ------------------------------------------------------------ C14
\* C14: /join from a user who has a document is answered "already in the
\* game", and otherwise, with no game active, "no active game"; in both
\* cases the users and the games (rosters included) stay as they were.
JoinRejects ==
    [][\A u \in UserIds, toA \in BOOLEAN : join(u, toA) =>
          /\ find_user(users, u) # 0 =>
                reply' = "already_in_game" /\ users' = users /\ games' = games
          /\ (find_user(users, u) = 0 /\ ActiveGames = {}) =>
                reply' = "no_active_game" /\ users' = users /\ games' = games]_vars

\* A member of a Team roster has just been told they are already in.
JoinRejectsWitness ==
    /\ reply = "already_in_game"
    /\ \E i \in ActiveGames :
          /\ games[i].mode = "Team"
          /\ Len(games[i].team_1) + Len(games[i].team_2) >= 2

\* ------------------------------------------------------------ C15
\* No stored user goes by the name typed in arg.
NameUnknown(arg) == \A i \in 1..Len(users) : users[i].display_name # lstrip_at(arg)

\* /setpoints or /bot add|remove by the administrator, parsing into a name
\* and an integer.
AdminPointsCommand(arg) ==
    /\ OneToken(arg)
    /\ \/ \E points \in {0, 2} : set_points(ADMIN_ID, arg, points, TRUE)
       \/ \E action \in {"add", "remove"} :
             admin_override(ADMIN_ID, action, arg, 1, TRUE, MaxPoints)

\* C15: /setpoints and /bot add|remove naming no stored user answer "user
\* not found" and leave every user and every game document as it was.
UnknownNameFails ==
    [][\A arg \in AdminArgs : (NameUnknown(arg) /\ AdminPointsCommand(arg)) =>
          /\ reply' = "user_not_found"
          /\ users' = users
          /\ games' = games]_vars

\* The administrator has named a stranger while users and a game are stored.
UnknownNameFailsWitness ==
    /\ reply = "user_not_found"
    /\ ActiveGames # {}
    /\ \E i \in 1..Len(users) : users[i].points > 0

\* ------------------------------------------------------------ C16
\* C16: /reset by the administrator succeeds with or without an active game,
\* leaves every user document in place with points 0, streak 0 and no
\* last_claim, touches no game, and sent again right away changes nothing.
ResetZeroes ==
    [][reset(ADMIN_ID) =>
          /\ reply' = "all_reset"
          /\ Len(users') = Len(users)
          /\ \A i \in 1..Len(users) :
                /\ users'[i].user_id = users[i].user_id
                /\ users'[i].display_name = users[i].display_name
          /\ AllZero(users')
          /\ games' = games
          /\ reply = "all_reset" => users' = users]_vars

\* With no game active, /reset has zeroed a user who had claimed.
ResetZeroesWitness ==
    /\ reply = "all_reset"
    /\ ActiveGames = {}
    /\ \E i \in 1..Len(users) : claimed_on[users[i].user_id] # None

\* ------------------------------------------------------------ C19
\* C19: an /endday that announces the next day raises the active game's day
\* by 1 and changes nothing else of any game; every user document stays,
\* with streak 0 and no last_claim, its points and display name untouched.
EndDayFrame ==
    [][(end_day(ADMIN_ID, MaxDay) /\ reply' = "day_ended") =>
          LET g == find_active(games) IN
          /\ g # 0
          /\ games' = [games EXCEPT ![g].day = games[g].day + 1]
          /\ Len(users') = Len(users)
          /\ \A i \in 1..Len(users) :
                users'[i] = [users[i] EXCEPT !.streak = 0, !.last_claim = None]]_vars

\* Day 1 of a Team game with a member on a roster has ended, a user keeping
\* a claimed point.
EndDayFrameWitness ==
    /\ reply = "day_ended"
    /\ \E i \in ActiveGames :
          /\ games[i].mode = "Team"
          /\ games[i].day = 2
          /\ Len(games[i].team_1) + Len(games[i].team_2) >= 2
    /\ \E i \in 1..Len(users) : users[i].points > 0 /\ users[i].last_claim = None

\* ------------------------------------------------------------ C20
\* C20: an active game's day never exceeds 30, so 30 /endday commands end
\* any game, whatever the initiator typed during setup.
DayBounded == \A i \in ActiveGames : games[i].day <= 30

\* ------------------------------------------------------------ C17
\* Number of times name stands on the rosters of game.
OnRosters(game, name) ==
    Cardinality({k \in 1..Len(game.team_1) : game.team_1[k] = name})
    + Cardinality({k \in 1..Len(game.team_2) : game.team_2[k] = name})

\* Two /join calls of different users, run at the same time, have both been
\* welcomed to the same game, which is still stored.
JoinedTogether(p, q) ==
    /\ p # q
    /\ calls[p].op = "join" /\ calls[q].op = "join"
    /\ calls[p].outcome = "joined" /\ calls[q].outcome = "joined"
    /\ calls[p].user_id # calls[q].user_id
    /\ calls[p].game.id = calls[q].game.id
    /\ q \in calls[p].with \/ p \in calls[q].with
    /\ find_game(games, calls[p].game.id) # 0

\* C17: after two overlapping joins of a Team game each of the two display
\* names stands on exactly one roster.
NoLostJoin ==
    \A p, q \in Workers : JoinedTogether(p, q) =>
        LET game == games[find_game(games, calls[p].game.id)] IN
        /\ OnRosters(game, get_display_name(calls[p].user_id)) = 1
        /\ OnRosters(game, get_display_name(calls[q].user_id)) = 1

\* ------------------------------------------------------------ C18
\* Two /endday calls on the same game, run at the same time, have returned.
EndedDayTogether(p, q) ==
    /\ p # q
    /\ calls[p].op = "end_day" /\ calls[q].op = "end_day"
    /\ calls[p].pc = "done" /\ calls[q].pc = "done"
    /\ calls[p].game.id # None /\ calls[p].game.id = calls[q].game.id
    /\ q \in calls[p].with \/ p \in calls[q].with

\* The smaller of the days the two calls found.
FoundDay(p, q) ==
    IF calls[p].game.day <= calls[q].game.day THEN calls[p].game.day ELSE calls[q].game.day

\* C18: two overlapping /endday calls on a game at day d leave it at day
\* d + 2 or ended, as one after the other would, and no /endday writes the
\* day of a game that has been deactivated since the call found it.
EndDaySerial ==
    /\ [](\A p, q \in Workers : EndedDayTogether(p, q) =>
             LET g == find_game(games, calls[p].game.id) IN
             g # 0 /\ games[g].active => games[g].day >= FoundDay(p, q) + 2)
    /\ [][\A p \in Workers : end_day_write_day(p, MaxDay) =>
             LET g == find_game(games, calls[p].game.id) IN
             g # 0 => games[g].active]_vars

\* ------------------------------------------------------------ C21
\* C21: in a Team game no display name stands twice on the rosters, be it
\* on both or twice on one; the initiator, placed at the mode prompt, is not
\* placed again by /join.
RostersDisjoint ==
    \A i \in 1..Len(games) : games[i].mode = "Team" =>
        \A u \in UserIds : OnRosters(games[i], get_display_name(u)) <= 1

\* ------------------------------------------------------------ C22
\* C22: the rosters of an active Team game differ in size by at most 1,
\* also while and after /join calls interleave.
RostersBalanced ==
    \A i \in ActiveGames : games[i].mode = "Team" =>
        /\ Len(games[i].team_1) - Len(games[i].team_2) <= 1
        /\ Len(games[i].team_2) - Len(games[i].team_1) <= 1

\* Two overlapping joins of a Team game have both returned.
RostersBalancedWitness ==
    \E p, q \in Workers :
        /\ JoinedTogether(p, q)
        /\ games[find_game(games, calls[p].game.id)].active
        /\ games[find_game(games, calls[p].game.id)].mode = "Team"

\* ------------------------------------------------------------ C23
\* C23: while a Team game is active every stored user's display name stands
\* on one of its rosters, so the team totals of the leaderboard cover every
\* user's points.
EveryUserOnRoster ==
    \A g \in ActiveGames : games[g].mode = "Team" =>
        \A i \in 1..Len(users) :
            \/ InRoster(users[i].display_name, games[g].team_1)
            \/ InRoster(users[i].display_name, games[g].team_2)

====
